---- MODULE Spec2Model ----
(***************************************************************************)
(* AI Dietitian API (src/api.py) over the conversational chain of          *)
(* src/tool.py: the process-wide session store app_state, the request      *)
(* boundary (bearer credential, pydantic request models) and the handlers  *)
(* initialize_session, chat, clear_session, list_sessions, health_check.   *)
(*                                                                         *)
(* The handlers are `async def` coroutines that never await: uvicorn runs  *)
(* one process with one event loop, so a handler runs from its first line  *)
(* to its response without another handler in between, and the synchronous *)
(* agent_chain.invoke of chat keeps the loop for the whole model call.     *)
(***************************************************************************)
EXTENDS Integers, Sequences, FiniteSets, Bags

VARIABLES agent_chains, memories, pending, running, response,
          api_key_input, session_state, page

\* app_state of src/api.py with the requests of its event loop
api == <<agent_chains, memories, pending, running, response>>

\* the sidebar input, st.session_state and the rendered page of src/app.py
ui == <<api_key_input, session_state, page>>

vars == <<agent_chains, memories, pending, running, response,
          api_key_input, session_state, page>>

(***************************************************************************)
(* Bounds of the model.                                                    *)
(***************************************************************************)
\* a chat is taken up only while the transcript has room for its two turns
MaxTurns == 4
\* requests that may wait for the event loop at the same time
MaxPending == 2
\* the chat UI takes a message only while it shows fewer messages than this
MaxShown == 4

(***************************************************************************)
(* Program constants.                                                      *)
(***************************************************************************)
MinSessionIdLen == 1
MaxSessionIdLen == 100
MinMessageLen == 1
MaxMessageLen == 2000

(***************************************************************************)
(* Python values.  A str is kept run-length encoded, a sequence of runs    *)
(* [c |-> character, n |-> repetitions >= 1] in which neighbouring runs    *)
(* differ in c, so that two strs are equal exactly when their encodings    *)
(* are, and a str of 2001 characters is one run.  An Optional is a         *)
(* sequence of length 0 (None) or 1.                                       *)
(***************************************************************************)
None == <<>>

Some(x) == <<x>>

Rep(c, n) == IF n = 0 THEN <<>> ELSE <<[c |-> c, n |-> n]>>

\* s + t
Cat(s, t) ==
    IF s = <<>> THEN t
    ELSE IF t = <<>> THEN s
    ELSE IF s[Len(s)].c = t[1].c
         THEN SubSeq(s, 1, Len(s) - 1)
                \o <<[c |-> t[1].c, n |-> s[Len(s)].n + t[1].n]>>
                \o SubSeq(t, 2, Len(t))
         ELSE s \o t

RECURSIVE StrLen(_)
\* len(s)
StrLen(s) == IF s = <<>> THEN 0 ELSE s[1].n + StrLen(Tail(s))

RECURSIVE CharAt(_, _)
\* s[i - 1], for 1 <= i <= len(s)
CharAt(s, i) == IF i <= s[1].n THEN s[1].c ELSE CharAt(Tail(s), i - s[1].n)

\* s.startswith(p)
startswith(s, p) ==
    /\ StrLen(p) <= StrLen(s)
    /\ \A i \in 1..StrLen(p) : CharAt(s, i) = CharAt(p, i)

RECURSIVE replace(_, _)
\* s.replace(ch, '')
replace(s, ch) ==
    IF s = <<>> THEN <<>>
    ELSE IF s[1].c = ch THEN replace(Tail(s), ch)
    ELSE Cat(<<s[1]>>, replace(Tail(s), ch))

\* the characters of the model for which str.isalnum() is true
AlnumChars == {"a", "b", "A", "I", "z", "7"}

\* s.isalnum(): at least one character, and all of them alphanumeric
isalnum(s) == s # <<>> /\ \A i \in 1..Len(s) : s[i].c \in AlnumChars

\* d[k] = v as it would be in a store that keeps the newest key alone
dict_set_evicting(d, k, v) == [x \in {k} |-> v]

\* d[k] = v
dict_set(d, k, v) == [x \in DOMAIN d \cup {k} |-> IF x = k THEN v ELSE d[x]]

\* del d[k]
dict_del(d, k) == [x \in DOMAIN d \ {k} |-> d[x]]

EmptyDict == [x \in {} |-> None]

(***************************************************************************)
(* src/tool.py                                                             *)
(***************************************************************************)
\* the system instruction, abbreviated to one character
SYSTEM_PROMPT == Rep("S", 1)

Message(type, content) == [type |-> type, content |-> content]

\* the template as it would be with the new input placed before the history
ChatPromptTemplate_input_first(chat_history, input) ==
    <<Message("system", SYSTEM_PROMPT), Message("human", input)>>
        \o chat_history

\* ChatPromptTemplate.from_messages([system, chat_history, human]) formatted
ChatPromptTemplate(chat_history, input) ==
    <<Message("system", SYSTEM_PROMPT)>>
        \o chat_history
        \o <<Message("human", input)>>

\* ConversationBufferMemory(return_messages = True): a fresh memory is the
\* empty list of messages, and load_memory_variables returns that list
ConversationBufferMemory == <<>>

load_memory_variables(memory) == memory

\* save_context as it would be if it stored the output alone
save_context_output_only(memory, input, output) ==
    memory \o <<Message("ai", output)>>

\* save_context as it would be if it stored the output before the input
save_context_ai_first(memory, input, output) ==
    memory \o <<Message("ai", output), Message("human", input)>>

\* memory.save_context({"input": input}, {"output": output})
save_context(memory, input, output) ==
    memory \o <<Message("human", input), Message("ai", output)>>

\* the chain and the memory of a new session; the llm of the chain is bound
\* to the key it was built with
get_diet_agent_chain(api_key) ==
    [agent_chain |-> [google_api_key |-> api_key, system |-> SYSTEM_PROMPT],
     memory |-> ConversationBufferMemory]

(***************************************************************************)
(* What the collaborators may do.  Building the chain returns or raises;   *)
(* the model call returns one assistant text or raises (a transport or     *)
(* provider error, the provider client's own timeout among them).          *)
(***************************************************************************)
ExcTexts == {"DeadlineExceeded", "ResourceExhausted"}

\* the assistant texts the model call may return
ReplyTexts == {Rep("r", 1), Rep("r", 2)}

Returned(content) == [ok |-> TRUE, content |-> content, exc |-> ""]

Raised(exc) == [ok |-> FALSE, content |-> <<>>, exc |-> exc]

BuildOutcomes == {Returned(<<>>)} \cup {Raised(e) : e \in ExcTexts}

InvokeOutcomes(replies) ==
    {Returned(t) : t \in replies} \cup {Raised(e) : e \in ExcTexts}

(***************************************************************************)
(* src/api.py: requests, responses and the request boundary.               *)
(***************************************************************************)
\* op: "init" | "chat" | "clear" | "list" | "health"; token: the Optional
\* bearer token of the Authorization header
Request(op, session_id, message, token) ==
    [op |-> op, session_id |-> session_id, message |-> message, token |-> token]

Response(request, code, status, detail) ==
    [op |-> request.op, session_id |-> request.session_id, code |-> code,
     status |-> status, detail |-> detail, exc |-> "", response |-> None,
     active_sessions |-> {}, total_sessions |-> 0]

NoRequest == Request("", <<>>, <<>>, None)

NoResponse == Response(NoRequest, 0, "", "")

\* HTTPBearer(auto_error = False): no header or no token gives None
security(token) == IF token = None \/ token[1] = <<>> THEN None ELSE token

\* get_api_key as it would be without the prefix test of line 130
get_api_key_any_token(credentials) ==
    IF credentials = None
    THEN [ok |-> FALSE, api_key |-> <<>>, detail |-> "API key required"]
    ELSE IF credentials[1] = <<>>
         THEN [ok |-> FALSE, api_key |-> <<>>, detail |-> "Invalid API key format"]
         ELSE [ok |-> TRUE, api_key |-> credentials[1], detail |-> ""]

\* the result of the dependency: the api key, or the 401 it raises
get_api_key(credentials) ==
    IF credentials = None
    THEN [ok |-> FALSE, api_key |-> <<>>, detail |-> "API key required"]
    ELSE IF credentials[1] = <<>>
            \/ ~startswith(credentials[1], Cat(Rep("A", 1), Rep("I", 1)))
         THEN [ok |-> FALSE, api_key |-> <<>>, detail |-> "Invalid API key format"]
         ELSE [ok |-> TRUE, api_key |-> credentials[1], detail |-> ""]

\* Field as it would be with the upper limit off by one
Field_one_more(v, min_length, max_length) ==
    min_length <= StrLen(v) /\ StrLen(v) <= max_length + 1

\* Field(..., min_length, max_length) on a str
Field(v, min_length, max_length) ==
    min_length <= StrLen(v) /\ StrLen(v) <= max_length

\* TRUE when the validator returns v, FALSE when it raises ValueError
InitSessionRequest_validate_session_id(v) ==
    isalnum(replace(replace(v, "-"), "_"))

ChatRequest_validate_session_id(v) ==
    isalnum(replace(replace(v, "-"), "_"))

\* TRUE when the body parses into the model, FALSE on a validation error
InitSessionRequest(session_id) ==
    /\ Field(session_id, MinSessionIdLen, MaxSessionIdLen)
    /\ InitSessionRequest_validate_session_id(session_id)

ChatRequest(message, session_id) ==
    /\ Field(message, MinMessageLen, MaxMessageLen)
    /\ Field(session_id, MinSessionIdLen, MaxSessionIdLen)
    /\ ChatRequest_validate_session_id(session_id)

\* the route "/clear-session/{session_id}": a path parameter is never empty
clear_session_route(session_id) == session_id # <<>>

(***************************************************************************)
(* src/api.py: the handler bodies, as functions of the store.              *)
(***************************************************************************)
Result(chains, mems, resp) == [chains |-> chains, mems |-> mems, resp |-> resp]

\* initialize_session as it would be without the test of line 191
initialize_session_rebuild(chains, mems, request, api_key, build) ==
    IF build.ok
    THEN LET made == get_diet_agent_chain(api_key)
         IN  Result(dict_set(chains, request.session_id, made.agent_chain),
                    dict_set(mems, request.session_id, made.memory),
                    Response(request, 200, "initialized",
                             "Session successfully initialized"))
    ELSE Result(chains, mems,
                [Response(request, 500, "error", "Failed to initialize session")
                   EXCEPT !.exc = build.exc])

initialize_session(chains, mems, request, api_key, build) ==
    IF request.session_id \in DOMAIN chains
    THEN Result(chains, mems,
                Response(request, 200, "exists", "Session already initialized"))
    ELSE IF build.ok
         THEN LET made == get_diet_agent_chain(api_key)
              IN  Result(dict_set(chains, request.session_id, made.agent_chain),
                         dict_set(mems, request.session_id, made.memory),
                         Response(request, 200, "initialized",
                                  "Session successfully initialized"))
         ELSE Result(chains, mems,
                     [Response(request, 500, "error", "Failed to initialize session")
                        EXCEPT !.exc = build.exc])

\* chat_begin as it would be if the auto-initialization stored the chain and
\* not the memory (line 236 missing)
chat_begin_chain_only(chains, mems, request, api_key, build) ==
    LET sid == request.session_id
        absent == sid \notin DOMAIN chains
        made == get_diet_agent_chain(api_key)
        chains1 == IF absent THEN dict_set(chains, sid, made.agent_chain) ELSE chains
    IN  IF absent /\ ~build.ok
        THEN [chains |-> chains, mems |-> mems, frame |-> None,
              resp |-> Some([Response(request, 500, "error",
                                      "Failed to generate response")
                               EXCEPT !.exc = build.exc])]
        ELSE IF sid \notin DOMAIN mems
        THEN [chains |-> chains1, mems |-> mems, frame |-> None,
              resp |-> Some([Response(request, 500, "error",
                                      "Failed to generate response")
                               EXCEPT !.exc = "KeyError"])]
        ELSE [chains |-> chains1, mems |-> mems,
              frame |-> Some([request |-> request,
                              agent_chain |-> chains1[sid],
                              prompt |-> ChatPromptTemplate(
                                             load_memory_variables(mems[sid]),
                                             request.message)]),
              resp |-> None]

\* chat up to the model call: lines 229-250.  frame is None when the handler
\* has already raised (get_diet_agent_chain raised, or the lookup of line 241
\* found no memory), else the locals of the suspended call
\* chat_begin as it would be if every chat built a chain from the key of its
\* own request
chat_begin_request_key(chains, mems, request, api_key, build) ==
    LET sid == request.session_id
        absent == sid \notin DOMAIN chains
        made == get_diet_agent_chain(api_key)
        chains1 == dict_set(chains, sid, made.agent_chain)
        mems1 == IF absent THEN dict_set(mems, sid, made.memory) ELSE mems
    IN  IF ~build.ok
        THEN [chains |-> chains, mems |-> mems, frame |-> None,
              resp |-> Some([Response(request, 500, "error",
                                      "Failed to generate response")
                               EXCEPT !.exc = build.exc])]
        ELSE [chains |-> chains1, mems |-> mems1,
              frame |-> Some([request |-> request,
                              agent_chain |-> chains1[sid],
                              prompt |-> ChatPromptTemplate(
                                             load_memory_variables(mems1[sid]),
                                             request.message)]),
              resp |-> None]

chat_begin(chains, mems, request, api_key, build) ==
    LET sid == request.session_id
        absent == sid \notin DOMAIN chains
        made == get_diet_agent_chain(api_key)
        chains1 == IF absent THEN dict_set(chains, sid, made.agent_chain) ELSE chains
        mems1 == IF absent THEN dict_set(mems, sid, made.memory) ELSE mems
    IN  IF absent /\ ~build.ok
        THEN [chains |-> chains, mems |-> mems, frame |-> None,
              resp |-> Some([Response(request, 500, "error",
                                      "Failed to generate response")
                               EXCEPT !.exc = build.exc])]
        ELSE IF sid \notin DOMAIN mems1
        THEN [chains |-> chains1, mems |-> mems1, frame |-> None,
              resp |-> Some([Response(request, 500, "error",
                                      "Failed to generate response")
                               EXCEPT !.exc = "KeyError"])]
        ELSE [chains |-> chains1, mems |-> mems1,
              frame |-> Some([request |-> request,
                              agent_chain |-> chains1[sid],
                              prompt |-> ChatPromptTemplate(
                                             load_memory_variables(mems1[sid]),
                                             request.message)]),
              resp |-> None]

\* chat_end as it would be if the user turn were stored before the model
\* call and only the assistant turn after it
chat_end_user_first(chains, mems, frame, outcome) ==
    LET request == frame.request
        sid == request.session_id
        asked == IF sid \in DOMAIN mems
                 THEN dict_set(mems, sid,
                               Append(mems[sid], Message("human", request.message)))
                 ELSE mems
    IN  IF outcome.ok
        THEN Result(chains,
                    IF sid \in DOMAIN mems
                    THEN dict_set(mems, sid,
                                  Append(asked[sid], Message("ai", outcome.content)))
                    ELSE mems,
                    [Response(request, 200, "success", "")
                       EXCEPT !.response = Some(outcome.content)])
        ELSE Result(chains, asked,
                    [Response(request, 500, "error", "Failed to generate response")
                       EXCEPT !.exc = outcome.exc])

\* chat from the return of the model call: lines 252-271.  memory is the
\* object the handler fetched at line 241; the store shows it while the
\* session is still stored
chat_end(chains, mems, frame, outcome) ==
    LET request == frame.request
        sid == request.session_id
    IN  IF outcome.ok
        THEN Result(chains,
                    IF sid \in DOMAIN mems
                    THEN dict_set(mems, sid,
                                  save_context(mems[sid], request.message,
                                               outcome.content))
                    ELSE mems,
                    [Response(request, 200, "success", "")
                       EXCEPT !.response = Some(outcome.content)])
        ELSE Result(chains, mems,
                    [Response(request, 500, "error", "Failed to generate response")
                       EXCEPT !.exc = outcome.exc])

\* clear_session as it would be if it deleted the memory and not the chain
\* (line 278 missing)
clear_session_memory_only(chains, mems, request) ==
    IF request.session_id \in DOMAIN chains /\ request.session_id \notin DOMAIN mems
    THEN Result(chains, mems,
                [Response(request, 500, "error", "Failed to clear session")
                   EXCEPT !.exc = "KeyError"])
    ELSE IF request.session_id \in DOMAIN chains
    THEN Result(chains, dict_del(mems, request.session_id),
                Response(request, 200, "cleared", "Session cleared successfully"))
    ELSE Result(chains, mems,
                Response(request, 200, "not_found", "Session not found"))

\* clear_session as it would be if it cleared both dicts as lifespan does
clear_session_every_session(chains, mems, request) ==
    IF request.session_id \in DOMAIN chains
    THEN Result(EmptyDict, EmptyDict,
                Response(request, 200, "cleared", "Session cleared successfully"))
    ELSE Result(chains, mems,
                Response(request, 200, "not_found", "Session not found"))

\* line 279 raises KeyError when the session has a chain and no memory
clear_session(chains, mems, request) ==
    IF request.session_id \in DOMAIN chains /\ request.session_id \notin DOMAIN mems
    THEN Result(dict_del(chains, request.session_id), mems,
                [Response(request, 500, "error", "Failed to clear session")
                   EXCEPT !.exc = "KeyError"])
    ELSE IF request.session_id \in DOMAIN chains
    THEN Result(dict_del(chains, request.session_id),
                dict_del(mems, request.session_id),
                Response(request, 200, "cleared", "Session cleared successfully"))
    ELSE Result(chains, mems,
                Response(request, 200, "not_found", "Session not found"))

\* health_check as it would be if it counted the keys of app_state
health_check_len_app_state(chains, request) ==
    [Response(request, 200, "healthy", "")
       EXCEPT !.total_sessions = Cardinality({"agent_chains", "memories",
                                              "startup_time"})]

list_sessions(chains, request) ==
    [Response(request, 200, "", "")
       EXCEPT !.active_sessions = DOMAIN chains,
              !.total_sessions = Cardinality(DOMAIN chains)]

health_check(chains, request) ==
    [Response(request, 200, "healthy", "")
       EXCEPT !.total_sessions = Cardinality(DOMAIN chains)]

\* the whole handler: a chat whose chain builds as `build` says and whose
\* model call ends as `outcome` says
chat(chains, mems, request, api_key, build, outcome) ==
    LET begun == chat_begin(chains, mems, request, api_key, build)
    IN  IF begun.frame = None
        THEN Result(begun.chains, begun.mems, begun.resp[1])
        ELSE chat_end(begun.chains, begun.mems, begun.frame[1], outcome)

(***************************************************************************)
(* The requests the clients send.                                          *)
(***************************************************************************)
Str(c) == Rep(c, 1)

sidA == Str("a")
sidB == Str("b")
keyA == Cat(Str("A"), Str("I"))
keyB == Cat(keyA, Str("z"))
hello == Str("h")

\* two sessions, one of them used with two well-formed keys, one message
CoreRequests ==
    {Request("init", sidA, <<>>, Some(key)) : key \in {keyA, keyB}}
        \cup {Request("chat", sidA, hello, Some(key)) : key \in {keyA, keyB}}
        \cup {Request("init", sidB, <<>>, Some(keyA)),
              Request("chat", sidB, hello, Some(keyA))}
        \cup {Request("clear", sid, <<>>, None) : sid \in {sidA, sidB}}
        \cup {Request("list", <<>>, <<>>, None), Request("health", <<>>, <<>>, None)}

\* session ids at and around the limits of the request models: "", 101
\* characters, "a@", "a b", "-", "_-"
OddIds ==
    {<<>>, Rep("a", MaxSessionIdLen + 1),
     Cat(Str("a"), Str("@")), Cat(Str("a"), Cat(Str(" "), Str("b"))),
     Str("-"), Cat(Str("_"), Str("-"))}

\* 100 characters, "a-b_7"
LongIds ==
    {Rep("a", MaxSessionIdLen),
     Cat(Str("a"), Cat(Str("-"), Cat(Str("b"), Cat(Str("_"), Str("7")))))}

BoundaryIds == OddIds \cup LongIds

BoundaryTokens ==
    {None, Some(<<>>), Some(Str("A")), Some(Cat(Str("a"), keyA))}

BoundaryMessages ==
    {<<>>, Rep("h", MaxMessageLen), Rep("h", MaxMessageLen + 1)}

\* one session with well-formed requests, and requests that differ from
\* them in one field
BoundaryRequests ==
    {Request("init", sidA, <<>>, Some(keyA)), Request("chat", sidA, hello, Some(keyA)),
     Request("clear", sidA, <<>>, None),
     Request("list", <<>>, <<>>, None), Request("health", <<>>, <<>>, None)}
        \cup {Request("init", sid, <<>>, Some(keyA)) : sid \in BoundaryIds}
        \cup {Request("chat", sid, hello, Some(keyA)) : sid \in OddIds}
        \cup {Request("clear", sid, <<>>, None) : sid \in BoundaryIds}
        \cup {Request("init", sidA, <<>>, t) : t \in BoundaryTokens}
        \cup {Request("chat", sidA, hello, t) : t \in BoundaryTokens}
        \cup {Request("chat", sidA, m, Some(keyA)) : m \in BoundaryMessages}

(***************************************************************************)
(* src/app.py: one run of the Streamlit script.  Streamlit runs the script *)
(* from top to bottom on every interaction; st.session_state is what one   *)
(* run leaves to the next.                                                 *)
(***************************************************************************)
ChatMessage(role, content) == [role |-> role, content |-> content]

\* the welcome message of the assistant
Welcome == ChatMessage("assistant", Str("w"))

\* st.session_state after the initialization of a new browser session
InitialSessionState ==
    [agent_chain |-> None, memory |-> None, messages |-> <<Welcome>>]

\* what a run rendered: chat_input is "enabled", "disabled" or "absent" (the
\* run stopped before the widget), error the text of the exception shown,
\* invoked the chain and the prompt of the model call the run made, if any
Page(chat_input, error, invoked) ==
    [chat_input |-> chat_input, error |-> error, invoked |-> invoked]

\* one run of the script with the sidebar holding api_key and user_input the
\* Optional message submitted in the chat input
app(ss, api_key, user_input, build, outcome) ==
    IF api_key = <<>>
    THEN [session_state |-> ss, page |-> Page("disabled", "", None)]
    ELSE IF ss.agent_chain = None /\ ~build.ok
    THEN [session_state |-> ss, page |-> Page("absent", build.exc, None)]
    ELSE
        LET built == get_diet_agent_chain(api_key)
            s1 == IF ss.agent_chain = None
                  THEN [ss EXCEPT !.agent_chain = Some(built.agent_chain),
                                  !.memory = Some(built.memory)]
                  ELSE ss
        IN  IF user_input = None
            THEN [session_state |-> s1, page |-> Page("enabled", "", None)]
            ELSE
                LET input == user_input[1]
                    s2 == [s1 EXCEPT !.messages =
                                         Append(@, ChatMessage("user", input))]
                    chat_history == load_memory_variables(s1.memory[1])
                    call == Some([agent_chain |-> s1.agent_chain[1],
                                  prompt |-> ChatPromptTemplate(chat_history, input)])
                IN  IF ~outcome.ok
                    THEN [session_state |-> s2,
                          page |-> Page("enabled", outcome.exc, call)]
                    ELSE [session_state |->
                              [s2 EXCEPT
                                  !.memory = Some(save_context(s1.memory[1], input,
                                                               outcome.content)),
                                  !.messages = Append(@, ChatMessage("assistant",
                                                                     outcome.content))],
                          page |-> Page("enabled", "", call)]

\* the keys typed into the sidebar: none, two well-formed keys, one that
\* does not start with AI
keyBad == Cat(Str("z"), Str("z"))

UIKeys == {<<>>, keyA, keyB, keyBad}

(***************************************************************************)
(* The state machine.  pending: the requests received and not yet taken up *)
(* by the event loop; running: the chat handler inside agent_chain.invoke, *)
(* or None; response: the last response sent.                              *)
(***************************************************************************)
Init ==
    /\ agent_chains = EmptyDict
    /\ memories = EmptyDict
    /\ pending = EmptyBag
    /\ running = None
    /\ response = NoResponse
    /\ api_key_input = <<>>
    /\ session_state = InitialSessionState
    /\ page = app(InitialSessionState, <<>>, None, Returned(<<>>), Returned(<<>>)).page

\* a client sends a request
Arrive(U, cap) ==
    /\ BagCardinality(pending) < cap
    /\ \E r \in U : pending' = pending (+) SetToBag({r})
    /\ UNCHANGED <<agent_chains, memories, running, response>>
    /\ UNCHANGED ui

\* the loop as it would be if chat awaited the model call: free at any time
LoopAlwaysIdle == TRUE

\* the event loop is free to start a handler: no handler is inside a call
\* that keeps the loop
LoopIdle == running = None

\* the 401 or 422 a credentialed request is answered with before its handler
\* runs, or None
Rejection(request, body_ok) ==
    LET key == get_api_key(security(request.token))
    IN  IF ~key.ok THEN Some(Response(request, 401, "error", key.detail))
        ELSE IF ~body_ok THEN Some(Response(request, 422, "error", "validation error"))
        ELSE None

TakeUp(r) ==
    /\ LoopIdle
    /\ r \in BagToSet(pending)
    /\ pending' = pending (-) SetToBag({r})

InitSession ==
    \E r \in BagToSet(pending) : \E build \in BuildOutcomes :
        /\ r.op = "init"
        /\ TakeUp(r)
        /\ LET rej == Rejection(r, InitSessionRequest(r.session_id))
               res == initialize_session(agent_chains, memories, r,
                                         get_api_key(security(r.token)).api_key,
                                         build)
           IN  IF rej # None
               THEN /\ response' = rej[1]
                    /\ UNCHANGED <<agent_chains, memories>>
               ELSE /\ response' = res.resp
                    /\ agent_chains' = res.chains
                    /\ memories' = res.mems
        /\ UNCHANGED running
        /\ UNCHANGED ui

ChatBegin ==
    \E r \in BagToSet(pending) : \E build \in BuildOutcomes :
        /\ r.op = "chat"
        /\ TakeUp(r)
        /\ r.session_id \in DOMAIN memories => Len(memories[r.session_id]) < MaxTurns
        /\ LET rej == Rejection(r, ChatRequest(r.message, r.session_id))
               res == chat_begin(agent_chains, memories, r,
                                 get_api_key(security(r.token)).api_key, build)
           IN  IF rej # None
               THEN /\ response' = rej[1]
                    /\ UNCHANGED <<agent_chains, memories, running>>
               ELSE /\ agent_chains' = res.chains
                    /\ memories' = res.mems
                    /\ running' = res.frame
                    /\ response' = IF res.resp = None THEN response ELSE res.resp[1]
        /\ UNCHANGED ui

ChatEnd(replies) ==
    \E outcome \in InvokeOutcomes(replies) :
        /\ running # None
        /\ LET res == chat_end(agent_chains, memories, running[1], outcome)
           IN  /\ agent_chains' = res.chains
               /\ memories' = res.mems
               /\ response' = res.resp
        /\ running' = None
        /\ UNCHANGED pending
        /\ UNCHANGED ui

ClearSession ==
    \E r \in BagToSet(pending) :
        /\ r.op = "clear"
        /\ TakeUp(r)
        /\ LET res == clear_session(agent_chains, memories, r)
           IN  IF ~clear_session_route(r.session_id)
               THEN /\ response' = Response(r, 404, "error", "Not Found")
                    /\ UNCHANGED <<agent_chains, memories>>
               ELSE /\ response' = res.resp
                    /\ agent_chains' = res.chains
                    /\ memories' = res.mems
        /\ UNCHANGED running
        /\ UNCHANGED ui

ListSessions ==
    \E r \in BagToSet(pending) :
        /\ r.op = "list"
        /\ TakeUp(r)
        /\ response' = list_sessions(agent_chains, r)
        /\ UNCHANGED <<agent_chains, memories, running>>
        /\ UNCHANGED ui

HealthCheck ==
    \E r \in BagToSet(pending) :
        /\ r.op = "health"
        /\ TakeUp(r)
        /\ response' = health_check(agent_chains, r)
        /\ UNCHANGED <<agent_chains, memories, running>>
        /\ UNCHANGED ui

\* lifespan after its yield: the server has answered the requests it had
\* received, and both dicts are cleared
Shutdown ==
    /\ LoopIdle
    /\ pending = EmptyBag
    /\ agent_chains' = EmptyDict
    /\ memories' = EmptyDict
    /\ UNCHANGED <<pending, running, response>>
    /\ UNCHANGED ui

Handle(replies) ==
    \/ InitSession
    \/ ChatBegin
    \/ ChatEnd(replies)
    \/ ClearSession
    \/ ListSessions
    \/ HealthCheck
    \/ Shutdown

\* the user types a key into the sidebar: the script runs with it
EnterKey(keys) ==
    \E k \in keys : \E build \in BuildOutcomes :
        /\ k # api_key_input
        /\ api_key_input' = k
        /\ LET run == app(session_state, k, None, build, Returned(<<>>))
           IN  /\ session_state' = run.session_state
               /\ page' = run.page
        /\ UNCHANGED api

\* the user submits a message in the chat input the page shows enabled: the
\* script runs with it
SendMessage(replies) ==
    \E build \in BuildOutcomes : \E outcome \in InvokeOutcomes(replies) :
        /\ page.chat_input = "enabled"
        /\ Len(session_state.messages) < MaxShown
        /\ session_state.memory # None => Len(session_state.memory[1]) < MaxTurns
        /\ LET run == app(session_state, api_key_input, Some(hello), build, outcome)
           IN  /\ session_state' = run.session_state
               /\ page' = run.page
        /\ UNCHANGED <<api_key_input, agent_chains, memories, pending, running,
                       response>>

Interact(keys, replies) == EnterKey(keys) \/ SendMessage(replies)

\* concurrent clients of two sessions
Next == Arrive(CoreRequests, MaxPending) \/ Handle({Rep("r", 1)})

Spec == Init /\ [][Next]_vars

\* one client at a time, sending requests at the limits of the boundary
NextBoundary == Arrive(BoundaryRequests, 1) \/ Handle(ReplyTexts)

SpecBoundary == Init /\ [][NextBoundary]_vars

\* one session of the API used with two keys, next to the front end used
\* with two keys
BindingRequests ==
    {Request("init", sidA, <<>>, Some(keyB)),
     Request("chat", sidA, hello, Some(keyA)),
     Request("chat", sidA, hello, Some(keyB)),
     Request("clear", sidA, <<>>, None),
     Request("list", <<>>, <<>>, None), Request("health", <<>>, <<>>, None)}

NextBinding ==
    \/ Arrive(BindingRequests, 1)
    \/ Handle({Rep("r", 1)})
    \/ Interact({<<>>, keyA, keyB}, {Rep("r", 1)})

SpecBinding == Init /\ [][NextBinding]_vars

\* the interactive front end alone
NextUI == Interact(UIKeys, ReplyTexts)

SpecUI == Init /\ [][NextUI]_vars

(***************************************************************************)
(* Vocabulary of the properties.                                           *)
(***************************************************************************)
\* this step takes request r from the pending requests
Took(r) ==
    /\ r \in BagToSet(pending)
    /\ pending' = pending (-) SetToBag({r})

\* this step is the return of the model call of the running chat
CallReturns == running # None /\ running' = None

\* this step takes a chat request up to its model call
CallStarts == running = None /\ running' # None

\* the transcript a prompt replays: the prompt without its first (system)
\* and last (new user) message
Replayed(prompt) == SubSeq(prompt, 2, Len(prompt) - 1)

StoreUnchanged == UNCHANGED <<agent_chains, memories>>

\* a bearer token that is present, non-empty and begins with "AI"
WellFormed(token) ==
    /\ token # None
    /\ StrLen(token[1]) >= 2
    /\ CharAt(token[1], 1) = "A"
    /\ CharAt(token[1], 2) = "I"

(***************************************************************************)
(* C1  Chat round-trip.  A chat call starts from the stored transcript T   *)
(* of its session (the empty one when the call creates the session); when  *)
(* its model call returns a reply, the transcript becomes T, then the user *)
(* message, then the reply, of length len(T) + 2, and the response carries *)
(* the content of the assistant turn just appended.                        *)
(***************************************************************************)
C1_ChatRoundTrip ==
    /\ [][CallStarts =>
            LET sid == running'[1].request.session_id
                T == Replayed(running'[1].prompt)
            IN  /\ sid \in DOMAIN memories'
                /\ memories'[sid] = T
                /\ sid \in DOMAIN memories => memories[sid] = T]_vars
    /\ [][(CallReturns /\ response'.code = 200) =>
            LET sid == running[1].request.session_id
                T == Replayed(running[1].prompt)
                after == memories'[sid]
            IN  /\ memories[sid] = T
                /\ Len(after) = Len(T) + 2
                /\ SubSeq(after, 1, Len(T)) = T
                /\ after[Len(T) + 1] = Message("human", running[1].request.message)
                /\ after[Len(T) + 2].type = "ai"
                /\ response'.op = "chat" /\ response'.session_id = sid
                /\ response'.response = Some(after[Len(T) + 2].content)]_vars

\* a chat on a session whose transcript was not empty has returned a reply
C1_Witness ==
    /\ response.op = "chat" /\ response.code = 200
    /\ response.session_id \in DOMAIN memories
    /\ Len(memories[response.session_id]) = 4
    /\ memories[response.session_id][4].content = response.response[1]

(***************************************************************************)
(* C2  Failure atomicity.  When the model call of a chat raises (the       *)
(* provider's timeout included), the whole store is what it was when the   *)
(* call started: the session keeps its transcript T, no turn is added; the *)
(* caller gets the 500 "Failed to generate response" with the cause; and   *)
(* the session is still stored and the loop free, so the next chat on it   *)
(* starts from T.                                                          *)
(***************************************************************************)
C2_FailureAtomicity ==
    /\ [][(CallReturns /\ response'.code # 200) =>
            LET sid == running[1].request.session_id
                T == Replayed(running[1].prompt)
            IN  /\ StoreUnchanged
                /\ sid \in DOMAIN memories' /\ memories'[sid] = T
                /\ sid \in DOMAIN agent_chains'
                /\ response'.op = "chat" /\ response'.session_id = sid
                /\ response'.code = 500
                /\ response'.detail = "Failed to generate response"
                /\ response'.exc \in ExcTexts
                /\ response'.response = None]_vars
    /\ [][(CallStarts /\ response.op = "chat" /\ response.code = 500
             /\ response.session_id = running'[1].request.session_id
             /\ response.session_id \in DOMAIN memories) =>
            Replayed(running'[1].prompt) = memories[response.session_id]]_vars

\* the model call of a chat on a session with two stored turns timed out
C2_Witness ==
    /\ response.op = "chat" /\ response.code = 500
    /\ response.exc = "DeadlineExceeded"
    /\ running = None
    /\ response.session_id \in DOMAIN memories
    /\ Len(memories[response.session_id]) = 2

(***************************************************************************)
(* C3  Concurrent chats on one session.  However many chat requests for a  *)
(* session are pending together, they are served one call at a time:       *)
(* while a call is inside the model nothing changes the store, and the     *)
(* call that returns a reply adds to the transcript it started from        *)
(* exactly its own user message followed by the reply it is answered with; *)
(* no other step changes a stored transcript.  So N successful calls leave *)
(* len(T) + 2N turns and every user turn is followed by its own reply.     *)
(***************************************************************************)
PairsUp(transcript) ==
    /\ Len(transcript) % 2 = 0
    /\ \A i \in 1..Len(transcript) :
           transcript[i].type = IF i % 2 = 1 THEN "human" ELSE "ai"

C3_ConcurrentChats ==
    /\ [](\A sid \in DOMAIN memories : PairsUp(memories[sid]))
    /\ [][running # None => (running' = running \/ running' = None)]_vars
    /\ [][(running # None /\ running' = running) => StoreUnchanged]_vars
    /\ [][\A sid \in DOMAIN memories \cap DOMAIN memories' :
            \/ memories'[sid] = memories[sid]
            \/ /\ CallReturns
               /\ running[1].request.session_id = sid
               /\ memories[sid] = Replayed(running[1].prompt)
               /\ memories'[sid] =
                      memories[sid]
                          \o <<Message("human", running[1].request.message),
                               Message("ai", response'.response[1])>>]_vars

\* one chat on session a is inside its model call, started from a transcript
\* of two turns, and another chat on session a is pending
C3_Witness ==
    /\ running # None
    /\ running[1].request.session_id = sidA
    /\ Len(memories[sidA]) = 2
    /\ \E r \in BagToSet(pending) : r.op = "chat" /\ r.session_id = sidA

(***************************************************************************)
(* C4  Initialize is idempotent.  An Initialize with a well-formed         *)
(* credential for a session id that is stored answers 200 "exists" and     *)
(* leaves the store as it was: the session keeps its chain and its         *)
(* transcript, whatever its length.                                        *)
(***************************************************************************)
C4_InitializeIdempotent ==
    [][\A r \in BagToSet(pending) :
         (Took(r) /\ r.op = "init" /\ WellFormed(r.token)
            /\ r.session_id \in DOMAIN agent_chains) =>
             /\ response'.op = "init" /\ response'.session_id = r.session_id
             /\ response'.code = 200
             /\ response'.status = "exists"
             /\ agent_chains'[r.session_id] = agent_chains[r.session_id]
             /\ memories'[r.session_id] = memories[r.session_id]
             /\ StoreUnchanged]_vars

\* Initialize has answered "exists" for a session with four stored turns
C4_Witness ==
    /\ response.op = "init" /\ response.status = "exists"
    /\ response.session_id \in DOMAIN memories
    /\ Len(memories[response.session_id]) = 4

(***************************************************************************)
(* C5  Auto-initialization.  For every chat request that passes the        *)
(* boundary and whose session id is not stored, and for every way the      *)
(* chain build and the model call may end, chat alone and Initialize       *)
(* followed by chat give the model the same prompt under the same chain    *)
(* and leave the same store and the same response; when the model call     *)
(* raises, the session is stored with an empty transcript in both.         *)
(***************************************************************************)
C5_AutoInitialization ==
    \A r \in BoundaryRequests \cup CoreRequests :
        (/\ r.op = "chat"
         /\ Rejection(r, ChatRequest(r.message, r.session_id)) = None
         /\ r.session_id \notin DOMAIN agent_chains) =>
            \A build \in BuildOutcomes : \A outcome \in InvokeOutcomes(ReplyTexts) :
                LET key == get_api_key(security(r.token)).api_key
                    sid == r.session_id
                    alone == chat(agent_chains, memories, r, key, build, outcome)
                    init == initialize_session(
                                agent_chains, memories,
                                Request("init", sid, <<>>, r.token), key, build)
                    after == chat(init.chains, init.mems, r, key, build, outcome)
                IN  /\ alone = after
                    /\ chat_begin(agent_chains, memories, r, key, build).frame
                           = chat_begin(init.chains, init.mems, r, key, build).frame
                    /\ build.ok =>
                           /\ sid \in DOMAIN alone.chains
                           /\ alone.chains[sid] = init.chains[sid]
                           /\ alone.mems[sid] =
                                  IF outcome.ok
                                  THEN <<Message("human", r.message),
                                         Message("ai", outcome.content)>>
                                  ELSE <<>>

\* the first request the server has answered or taken up is a chat, now
\* inside its model call: its session was created by the chat itself, and
\* other session ids are not stored
C5_Witness ==
    /\ response = NoResponse
    /\ running # None
    /\ running[1].request.session_id = sidA
    /\ DOMAIN agent_chains = {sidA}
    /\ memories[sidA] = <<>>

(***************************************************************************)
(* C6  Clear.  Clearing an id that is not stored answers 200 "not_found"   *)
(* and changes nothing; clearing a stored id answers 200 "cleared" and     *)
(* takes that id, and no other, out of the store.  The session list is the *)
(* stored ids, so the id is then absent from it and a second clear is a    *)
(* clear of an id that is not stored; and whatever step stores an id that  *)
(* was not stored stores it with an empty transcript.                      *)
(***************************************************************************)
C6_ClearSemantics ==
    /\ [][\A r \in BagToSet(pending) :
            (Took(r) /\ r.op = "clear" /\ r.session_id # <<>>) =>
                /\ response'.op = "clear" /\ response'.session_id = r.session_id
                /\ response'.code = 200
                /\ IF r.session_id \in DOMAIN agent_chains
                   THEN /\ response'.status = "cleared"
                        /\ DOMAIN agent_chains' = DOMAIN agent_chains \ {r.session_id}
                        /\ \A sid \in DOMAIN agent_chains' :
                               /\ agent_chains'[sid] = agent_chains[sid]
                               /\ memories'[sid] = memories[sid]
                   ELSE /\ response'.status = "not_found"
                        /\ StoreUnchanged]_vars
    /\ [][\A r \in BagToSet(pending) :
            (Took(r) /\ r.op = "list") =>
                response'.active_sessions = DOMAIN agent_chains]_vars
    /\ [][\A sid \in DOMAIN agent_chains' \ DOMAIN agent_chains :
            /\ sid \in DOMAIN memories'
            /\ memories'[sid] = <<>>
            /\ running' # None => Replayed(running'[1].prompt) = <<>>]_vars

\* a stored session was cleared, and the chat taken up right after it has
\* stored the id again, with an empty transcript
C6_Witness ==
    /\ response.op = "clear" /\ response.status = "cleared"
    /\ running # None
    /\ running[1].request.session_id = response.session_id
    /\ response.session_id \in DOMAIN memories
    /\ memories[response.session_id] = <<>>

(***************************************************************************)
(* Session ids as the interface describes them: 1 to 100 characters, each  *)
(* a letter, a digit, "-" or "_".                                          *)
(***************************************************************************)
LettersAndDigits == {"a", "b", "A", "I", "z", "7"}

PatternId(v) ==
    /\ 1 <= StrLen(v) /\ StrLen(v) <= 100
    /\ \A i \in 1..Len(v) : v[i].c \in LettersAndDigits \cup {"-", "_"}

(***************************************************************************)
(* C7  Invalid session ids are rejected everywhere.  An Initialize, Chat   *)
(* or Clear whose session id is empty, longer than 100 characters or holds *)
(* a character other than a letter, a digit, "-" and "_" is answered with  *)
(* a rejection (401, 404 or 422), never handled, and leaves the store as   *)
(* it was.                                                                 *)
(***************************************************************************)
C7_InvalidIdsRejected ==
    [][\A r \in BagToSet(pending) :
         (Took(r) /\ r.op \in {"init", "chat", "clear"} /\ ~PatternId(r.session_id)) =>
             /\ response'.op = r.op /\ response'.session_id = r.session_id
             /\ response'.code \in {401, 404, 422}
             /\ running' = None
             /\ StoreUnchanged]_vars

(***************************************************************************)
(* C8  Valid session ids are accepted.  An Initialize with a well-formed   *)
(* credential and a session id of 1 to 100 characters out of letters,      *)
(* digits, "-" and "_" is not rejected at the boundary (it is answered 200,*)
(* or 500 when the chain cannot be built), and after a 200 the session is  *)
(* stored, with an empty transcript when this call stored it.              *)
(***************************************************************************)
C8_ValidIdsAccepted ==
    [][\A r \in BagToSet(pending) :
         (Took(r) /\ r.op = "init" /\ WellFormed(r.token) /\ PatternId(r.session_id)) =>
             /\ response'.op = "init" /\ response'.session_id = r.session_id
             /\ response'.code \in {200, 500}
             /\ response'.code = 200 =>
                    /\ r.session_id \in DOMAIN agent_chains'
                    /\ r.session_id \in DOMAIN memories'
                    /\ r.session_id \notin DOMAIN agent_chains =>
                           memories'[r.session_id] = <<>>]_vars

(***************************************************************************)
(* C9  Credential check at the boundary.  An Initialize or Chat without a  *)
(* bearer token, with an empty one or with one that does not begin with    *)
(* "AI" is answered 401, whatever its session id and message; no handler   *)
(* runs: the store is unchanged and no model call starts.                  *)
(***************************************************************************)
C9_CredentialBoundary ==
    [][\A r \in BagToSet(pending) :
         (Took(r) /\ r.op \in {"init", "chat"} /\ ~WellFormed(r.token)) =>
             /\ response'.op = r.op /\ response'.session_id = r.session_id
             /\ response'.code = 401
             /\ response'.detail \in {"API key required", "Invalid API key format"}
             /\ running' = None
             /\ StoreUnchanged]_vars

\* a request on a stored session was refused for the format of its token
C9_Witness ==
    /\ response.code = 401
    /\ response.detail = "Invalid API key format"
    /\ response.session_id \in DOMAIN agent_chains

(***************************************************************************)
(* C10  Message length bounds.  A Chat whose message has no character or   *)
(* more than 2000 is answered 401 or 422 and changes nothing: no session   *)
(* is stored, no model call starts, no transcript changes.  Every chat     *)
(* inside its model call, and every stored user turn, has a message of 1   *)
(* to 2000 characters.                                                     *)
(***************************************************************************)
C10_MessageLength ==
    /\ [][\A r \in BagToSet(pending) :
            (Took(r) /\ r.op = "chat"
               /\ ~(1 <= StrLen(r.message) /\ StrLen(r.message) <= 2000)) =>
                /\ response'.op = "chat" /\ response'.session_id = r.session_id
                /\ response'.code \in {401, 422}
                /\ running' = None
                /\ StoreUnchanged]_vars
    /\ [](running # None =>
            /\ 1 <= StrLen(running[1].request.message)
            /\ StrLen(running[1].request.message) <= 2000)
    /\ [](\A sid \in DOMAIN memories : \A i \in 1..Len(memories[sid]) :
            memories[sid][i].type = "human" =>
                /\ 1 <= StrLen(memories[sid][i].content)
                /\ StrLen(memories[sid][i].content) <= 2000)

\* a message of 2000 characters was stored as the first turn of session a,
\* and a later chat on session a was answered 422
C10_Witness ==
    /\ response.op = "chat" /\ response.code = 422
    /\ response.session_id = sidA
    /\ sidA \in DOMAIN memories
    /\ Len(memories[sidA]) = 2
    /\ StrLen(memories[sidA][1].content) = 2000

(***************************************************************************)
(* C11  Prompt assembly and full replay.  The prompt a chat call gives the *)
(* model is the system instruction, then every turn of the transcript      *)
(* stored for the session when the call starts, in stored order, then the  *)
(* new user message as the one element added after them; it does not       *)
(* change while the call lasts.                                            *)
(***************************************************************************)
C11_PromptAssembly ==
    /\ [][CallStarts =>
            LET frame == running'[1]
                sid == frame.request.session_id
                stored == memories'[sid]
                n == Len(stored)
            IN  /\ sid \in DOMAIN memories => stored = memories[sid]
                /\ Len(frame.prompt) = n + 2
                /\ frame.prompt[1] = Message("system", SYSTEM_PROMPT)
                /\ \A i \in 1..n : frame.prompt[i + 1] = stored[i]
                /\ frame.prompt[n + 2] = Message("human", frame.request.message)]_vars
    /\ [][(running # None /\ running' # None) => running' = running]_vars

\* a chat is inside its model call with a prompt that replays two stored
\* turns between the system instruction and the new message
C11_Witness ==
    /\ running # None
    /\ Len(running[1].prompt) = 4
    /\ running[1].prompt[2].type = "human"
    /\ running[1].prompt[3].type = "ai"

(***************************************************************************)
(* C12  The model call of one session does not block the others.  While a  *)
(* chat is inside its model call, every pending request that is not for    *)
(* the session of that chat (Initialize, Chat, Clear, List, Health) can be *)
(* taken up and answered.                                                  *)
(***************************************************************************)
Serve(r) ==
    /\ Took(r)
    /\ InitSession \/ ChatBegin \/ ClearSession \/ ListSessions \/ HealthCheck

C12_OtherSessionsNotBlocked ==
    \A r \in BagToSet(pending) :
        (running # None /\ r.session_id # running[1].request.session_id) =>
            ENABLED Serve(r)

(***************************************************************************)
(* C13  No internal detail in error responses.  The response to a failure  *)
(* inside Initialize or Chat is the same whatever the text of the          *)
(* exception: two runs that differ in that text alone answer alike.        *)
(***************************************************************************)
C13_NoExceptionDetail ==
    /\ running # None =>
           \A e1 \in ExcTexts : \A e2 \in ExcTexts :
               chat_end(agent_chains, memories, running[1], Raised(e1)).resp
                   = chat_end(agent_chains, memories, running[1], Raised(e2)).resp
    /\ \A r \in BagToSet(pending) :
           (r.op = "init" /\ Rejection(r, InitSessionRequest(r.session_id)) = None) =>
               \A e1 \in ExcTexts : \A e2 \in ExcTexts :
                   LET key == get_api_key(security(r.token)).api_key
                   IN  initialize_session(agent_chains, memories, r, key, Raised(e1)).resp
                           = initialize_session(agent_chains, memories, r, key,
                                                Raised(e2)).resp

(***************************************************************************)
(* C14  Observability is exact.  An id enters the store only in a step     *)
(* that takes up an Initialize or a Chat for that id, and every Initialize *)
(* answered "initialized" and every chat that reaches its model call has   *)
(* its id stored; an id leaves the store only in a step that takes up a    *)
(* Clear for that id (or at shutdown).  List answers with exactly the ids  *)
(* stored, and Health always answers 200 with the number of ids stored;    *)
(* neither changes the store.                                              *)
(***************************************************************************)
C14_ObservabilityExact ==
    /\ [](DOMAIN memories = DOMAIN agent_chains)
    /\ [][\A r \in BagToSet(pending) :
            (Took(r) /\ r.op = "list") =>
                /\ response'.op = "list" /\ response'.code = 200
                /\ response'.active_sessions = DOMAIN agent_chains
                /\ response'.total_sessions = Cardinality(DOMAIN agent_chains)
                /\ StoreUnchanged]_vars
    /\ [][\A r \in BagToSet(pending) :
            (Took(r) /\ r.op = "health") =>
                /\ response'.op = "health" /\ response'.code = 200
                /\ response'.status = "healthy"
                /\ response'.total_sessions = Cardinality(DOMAIN agent_chains)
                /\ StoreUnchanged]_vars
    /\ [][\A sid \in DOMAIN agent_chains' \ DOMAIN agent_chains :
            \E r \in BagToSet(pending) :
                Took(r) /\ r.op \in {"init", "chat"} /\ r.session_id = sid]_vars
    /\ [][\A r \in BagToSet(pending) :
            (Took(r) /\ r.op = "init" /\ response'.status = "initialized") =>
                r.session_id \in DOMAIN agent_chains']_vars
    /\ [][CallStarts =>
            running'[1].request.session_id \in DOMAIN agent_chains']_vars
    /\ [][\A sid \in DOMAIN agent_chains \ DOMAIN agent_chains' :
            \/ \E r \in BagToSet(pending) :
                   Took(r) /\ r.op = "clear" /\ r.session_id = sid
            \/ pending = EmptyBag /\ running = None
                   /\ DOMAIN agent_chains' = {}]_vars

\* Health has reported the two sessions that are stored
C14_Witness ==
    /\ response.op = "health"
    /\ response.total_sessions = 2
    /\ DOMAIN agent_chains = {sidA, sidB}

(***************************************************************************)
(* C15  Alternation invariant.  In every reachable state the transcript of *)
(* every stored session has even length, with a user turn at every odd     *)
(* position and an assistant turn at every even position.                  *)
(***************************************************************************)
C15_Alternation ==
    \A sid \in DOMAIN memories :
        LET transcript == memories[sid]
        IN  /\ Len(transcript) % 2 = 0
            /\ \A i \in 1..Len(transcript) :
                   transcript[i].type = IF i % 2 = 1 THEN "human" ELSE "ai"

\* a session holds two full exchanges
C15_Witness ==
    \E sid \in DOMAIN memories :
        /\ Len(memories[sid]) = 4
        /\ memories[sid][3].type = "human"
        /\ memories[sid][4].type = "ai"

(***************************************************************************)
(* C16  Append-only lifecycle.  In every step, a session stored before and *)
(* after the step has its previous transcript as a prefix of its new one;  *)
(* a session leaves the store only in a step that takes up a Clear for its *)
(* id and answers "cleared", or at shutdown.                               *)
(***************************************************************************)
C16_AppendOnly ==
    /\ [][\A sid \in DOMAIN memories \cap DOMAIN memories' :
            /\ Len(memories'[sid]) >= Len(memories[sid])
            /\ SubSeq(memories'[sid], 1, Len(memories[sid])) = memories[sid]]_vars
    /\ [][\A sid \in DOMAIN memories \ DOMAIN memories' :
            \/ \E r \in BagToSet(pending) :
                   /\ Took(r) /\ r.op = "clear" /\ r.session_id = sid
                   /\ response'.op = "clear" /\ response'.status = "cleared"
            \/ /\ pending = EmptyBag /\ running = None
               /\ UNCHANGED <<pending, running, response>>
               /\ memories' = EmptyDict /\ agent_chains' = EmptyDict]_vars

\* a session with four stored turns stands next to one that was just cleared
C16_Witness ==
    /\ response.op = "clear" /\ response.status = "cleared"
    /\ response.session_id \notin DOMAIN memories
    /\ \E sid \in DOMAIN memories : Len(memories[sid]) = 4

(***************************************************************************)
(* C17  Session isolation.  A step that takes up an Initialize, a Chat or  *)
(* a Clear for session id A, or in which the model call of a chat on A     *)
(* returns or raises, leaves every other id stored or absent as it was,    *)
(* with its chain and its transcript; and the chain and the prompt a chat  *)
(* on A gives the model are the same when another session is removed from  *)
(* the store or has its transcript emptied.                                *)
(***************************************************************************)
OthersUnchanged(A) ==
    \A sid \in (DOMAIN agent_chains \cup DOMAIN agent_chains'
                    \cup DOMAIN memories \cup DOMAIN memories') \ {A} :
        /\ sid \in DOMAIN agent_chains /\ sid \in DOMAIN agent_chains'
        /\ sid \in DOMAIN memories /\ sid \in DOMAIN memories'
        /\ agent_chains'[sid] = agent_chains[sid]
        /\ memories'[sid] = memories[sid]

C17_SessionIsolation ==
    /\ [][\A r \in BagToSet(pending) :
            (Took(r) /\ r.op \in {"init", "chat", "clear"}) =>
                OthersUnchanged(r.session_id)]_vars
    /\ [][CallReturns => OthersUnchanged(running[1].request.session_id)]_vars
    /\ [](\A r \in BagToSet(pending) : \A B \in DOMAIN memories \ {r.session_id} :
            \A build \in BuildOutcomes :
                (r.op = "chat" /\ B \in DOMAIN agent_chains) =>
                    LET key == get_api_key(security(r.token)).api_key
                        here == chat_begin(agent_chains, memories, r, key, build)
                        without == chat_begin(dict_del(agent_chains, B),
                                              dict_del(memories, B), r, key, build)
                        emptied == chat_begin(agent_chains,
                                              dict_set(memories, B, <<>>), r, key,
                                              build)
                    IN  /\ without.frame = here.frame
                        /\ emptied.frame = here.frame
                        /\ without.resp = here.resp
                        /\ emptied.resp = here.resp)

\* the model call of a chat on one session has returned and its turns are
\* stored while another session holds two turns of its own
C17_Witness ==
    /\ response.op = "chat" /\ response.code = 200
    /\ \E sid \in DOMAIN memories \ {response.session_id} :
           /\ Len(memories[sid]) = 2
           /\ response.session_id \in DOMAIN memories
           /\ Len(memories[response.session_id]) = 4

(***************************************************************************)
(* C18  Credential binding.  The chain stored for a session carries the    *)
(* key of the request in whose step the session was created and is never   *)
(* replaced while the session is stored; every model call of a chat is     *)
(* made with the chain stored for its session.  A chat with any            *)
(* well-formed key on a stored session reaches the model call, with the    *)
(* stored chain and the stored transcript in its prompt, and its turns are *)
(* appended.  The chat UI builds its chain from the key in the sidebar     *)
(* when it has none, keeps it whatever is entered later, and makes every   *)
(* model call with it.                                                     *)
(***************************************************************************)
C18_CredentialBinding ==
    /\ [][\A sid \in DOMAIN agent_chains' \ DOMAIN agent_chains :
            \E r \in BagToSet(pending) :
                /\ Took(r) /\ r.session_id = sid /\ WellFormed(r.token)
                /\ agent_chains'[sid].google_api_key = r.token[1]]_vars
    /\ [][\A sid \in DOMAIN agent_chains \cap DOMAIN agent_chains' :
            agent_chains'[sid] = agent_chains[sid]]_vars
    /\ [](running # None =>
            /\ running[1].request.session_id \in DOMAIN agent_chains
            /\ running[1].agent_chain
                   = agent_chains[running[1].request.session_id])
    /\ [][\A r \in BagToSet(pending) :
            (Took(r) /\ r.op = "chat" /\ WellFormed(r.token)
               /\ ChatRequest(r.message, r.session_id)
               /\ r.session_id \in DOMAIN agent_chains) =>
                /\ running' # None
                /\ running'[1].agent_chain = agent_chains[r.session_id]
                /\ Replayed(running'[1].prompt) = memories[r.session_id]]_vars
    /\ [][(CallReturns /\ response'.code = 200) =>
            LET frame == running[1]
                sid == frame.request.session_id
            IN  memories'[sid] = save_context(memories[sid], frame.request.message,
                                              response'.response[1])]_vars
    /\ [][(session_state.agent_chain = None /\ session_state'.agent_chain # None) =>
            session_state'.agent_chain[1].google_api_key = api_key_input']_vars
    /\ [][session_state.agent_chain # None =>
            session_state'.agent_chain = session_state.agent_chain]_vars
    /\ [](page.invoked # None =>
            /\ session_state.agent_chain # None
            /\ page.invoked[1].agent_chain = session_state.agent_chain[1])

\* a chat sent with one key is inside its model call on a session that holds
\* two turns and whose chain carries another key, and the chat UI has made a
\* model call with a chain whose key is not the key now in the sidebar
C18_Witness ==
    /\ running # None
    /\ running[1].request.token[1] # running[1].agent_chain.google_api_key
    /\ Len(Replayed(running[1].prompt)) = 2
    /\ page.invoked # None
    /\ api_key_input # <<>>
    /\ page.invoked[1].agent_chain.google_api_key # api_key_input

(***************************************************************************)
(* C19  The chat UI follows the chat contract.  In every state of the      *)
(* front end the displayed messages without the welcome message are the    *)
(* turns of the conversation memory, in order, with the same roles and the *)
(* same texts: no user message is displayed that the memory does not hold. *)
(***************************************************************************)
C19_UIChatContract ==
    LET shown == Tail(session_state.messages)
        remembered == IF session_state.memory = None
                      THEN <<>>
                      ELSE load_memory_variables(session_state.memory[1])
    IN  /\ Len(shown) = Len(remembered)
        /\ \A i \in 1..Len(shown) :
               /\ shown[i].content = remembered[i].content
               /\ shown[i].role
                      = IF remembered[i].type = "human" THEN "user" ELSE "assistant"

(***************************************************************************)
(* C20  Chat UI gating.  A model handle exists, a user message is          *)
(* displayed or a model call has been made only if the handle was built    *)
(* from a credential of the valid format (non-empty, beginning with "AI"); *)
(* and a run whose handle build failed has no handle, shows no chat input  *)
(* and has made no model call.                                             *)
(***************************************************************************)
C20_UIGating ==
    /\ session_state.agent_chain # None =>
           WellFormed(Some(session_state.agent_chain[1].google_api_key))
    /\ Len(session_state.messages) > 1 => session_state.agent_chain # None
    /\ page.invoked # None =>
           WellFormed(Some(page.invoked[1].agent_chain.google_api_key))
    /\ api_key_input = <<>> => page.chat_input = "disabled"
    /\ page.chat_input = "absent" =>
           /\ session_state.agent_chain = None
           /\ session_state.memory = None
           /\ page.invoked = None

====
